---- MODULE Spec2Model ----
(***************************************************************************)
(* State-machine model of specreduce/build_nist_table.py: main() runs      *)
(* build_table() (glob, per-file parse with fixed-width fallback, vstack,  *)
(* column transformation) and then save_table().  Text is modelled as      *)
(* sequences of one-character strings.                                     *)
(***************************************************************************)
EXTENDS Integers, Sequences, FiniteSets, TLC

\* ------------------------------------------------------------------ bounds
\* How many times main() is run against the same directory.
MaxRuns == 2

\* ------------------------------------------------------- program constants
\* np.genfromtxt(..., delimiter=(13, 14, 13, 16))
W1 == 13
W2 == 14
W3 == 13
W4 == 16
\* dtype=('S10', 'f8', 'S15', 'S15'): byte lengths of the string columns
S10 == 10
S15 == 15

names == <<"Intensity", "Wavelength", "Element", "Reference">>

NeworderSwapped == <<"Element", "Wavelength", "Strength", "Intensity", "On", "Reference">>
neworder == <<"Element", "Wavelength", "Intensity", "Strength", "On", "Reference">>

\* ------------------------------------------------------------- characters
Digits == {"0", "1", "2", "3", "4", "5", "6", "7", "8", "9"}
Lower == {"a", "b", "c", "d", "e", "f", "g", "h", "i", "j", "k", "l", "m",
          "n", "o", "p", "q", "r", "s", "t", "u", "v", "w", "x", "y", "z"}
Upper == {"A", "B", "C", "D", "E", "F", "G", "H", "I", "J", "K", "L", "M",
          "N", "O", "P", "Q", "R", "S", "T", "U", "V", "W", "X", "Y", "Z"}
\* the character class [a-zA-Z!@#$%^&*] of line 57
StrengthChars == Lower \cup Upper \cup {"!", "@", "#", "$", "%", "^", "&", "*"}
Whitespace == {" ", "\t"}

DigitVal == [c \in Digits |->
               CASE c = "0" -> 0 [] c = "1" -> 1 [] c = "2" -> 2 [] c = "3" -> 3
                 [] c = "4" -> 4 [] c = "5" -> 5 [] c = "6" -> 6 [] c = "7" -> 7
                 [] c = "8" -> 8 [] c = "9" -> 9]

Min(a, b) == IF a < b THEN a ELSE b

\* ---------------------------------------------------------- str helpers
\* Python s[a:b] for 0 <= a <= b (0-based, end-exclusive, clipped to len(s)).
Slice(s, a, b) == SubSeq(s, a + 1, Min(b, Len(s)))

RECURSIVE LStrip(_)
LStrip(s) == IF s # <<>> /\ Head(s) \in Whitespace THEN LStrip(Tail(s)) ELSE s

RECURSIVE RStrip(_)
RStrip(s) == IF s # <<>> /\ s[Len(s)] \in Whitespace
               THEN RStrip(SubSeq(s, 1, Len(s) - 1)) ELSE s

\* str.strip()
Strip(s) == RStrip(LStrip(s))

\* re.sub('[<class>]', '', s) and re.sub('[<class>]+', '', s): every character
\* of the class is deleted.
ReSub(class, s) == SelectSeq(s, LAMBDA c : c \notin class)

AllIn(s, class) == \A k \in 1..Len(s) : s[k] \in class

\* Whether int(s) accepts the text (optional sign, then one or more digits;
\* surrounding whitespace is accepted by int()).
IsIntLiteral(raw) ==
  LET s == Strip(raw)
      body == IF s # <<>> /\ Head(s) \in {"+", "-"} THEN Tail(s) ELSE s
  IN  body # <<>> /\ AllIn(body, Digits)

RECURSIVE DecVal(_)
DecVal(ds) == IF ds = <<>> THEN 0
              ELSE 10 * DecVal(SubSeq(ds, 1, Len(ds) - 1)) + DigitVal[ds[Len(ds)]]

\* int(s) for an accepted literal
ToInt(raw) ==
  LET s == Strip(raw)
  IN  IF Head(s) = "-" THEN 0 - DecVal(Tail(s))
      ELSE IF Head(s) = "+" THEN DecVal(Tail(s))
      ELSE DecVal(s)

\* Whether float(s) accepts the text: digits with at most one ".", at least one
\* digit, optional sign, surrounding whitespace ignored.
IsFloatLiteral(raw) ==
  LET s == Strip(raw)
      body == IF s # <<>> /\ Head(s) \in {"+", "-"} THEN Tail(s) ELSE s
  IN  /\ AllIn(body, Digits \cup {"."})
      /\ Len(SelectSeq(body, LAMBDA c : c = ".")) <= 1
      /\ SelectSeq(body, LAMBDA c : c \in Digits) # <<>>

\* The float is kept as its literal without the surrounding whitespace.
ToFloat(raw) == Strip(raw)

\* Split s at every occurrence of the character d (csv-style split).
RECURSIVE SplitOn(_, _)
SplitOn(s, d) ==
  IF \A k \in 1..Len(s) : s[k] # d THEN <<s>>
  ELSE LET p == CHOOSE k \in 1..Len(s) : s[k] = d /\ \A j \in 1..(k - 1) : s[j] # d
       IN  <<SubSeq(s, 1, p - 1)>> \o SplitOn(SubSeq(s, p + 1, Len(s)), d)

\* Whitespace-delimited tokens: runs of blanks separate, none is empty.
SplitWs(s) == SelectSeq(SplitOn(Strip(s), " "), LAMBDA f : f # <<>>)

Map(f(_), s) == [k \in 1..Len(s) |-> f(s[k])]

RECURSIVE ConcatAll(_)
ConcatAll(ss) == IF ss = <<>> THEN <<>> ELSE Head(ss) \o ConcatAll(Tail(ss))

\* d.join(fields)
Join(fields, d) == ConcatAll([k \in 1..Len(fields) |-> IF k = 1 THEN fields[k] ELSE <<d>> \o fields[k]])

\* ----------------------------------------------------------------- tables
\* An astropy Table: the column names in order, and each column's values.
EmptyTable == [names |-> <<>>, cols |-> <<>>]

Range(s) == {s[k] : k \in 1..Len(s)}

\* len(table)
NRows(tb) == IF tb.names = <<>> THEN 0 ELSE Len(tb.cols[tb.names[1]])

\* Table(data, names=nm): data is a sequence of rows, one value per name.
MakeTable(rows, nm) ==
  [names |-> nm,
   cols  |-> [n \in Range(nm) |->
                LET j == CHOOSE j \in 1..Len(nm) : nm[j] = n
                IN  [k \in 1..Len(rows) |-> rows[k][j]]]]

\* table.add_column(col, name=name): the new column goes last.
AddColumn(tb, col, name) ==
  [names |-> Append(tb.names, name),
   cols  |-> [n \in (DOMAIN tb.cols) \cup {name} |->
                IF n = name THEN col ELSE tb.cols[n]]]

\* table.remove_column(name)
RemoveColumn(tb, name) ==
  [names |-> SelectSeq(tb.names, LAMBDA n : n # name),
   cols  |-> [n \in (DOMAIN tb.cols) \ {name} |-> tb.cols[n]]]

\* table[order]: the named columns, in the order given.
SelectColumns(tb, order) ==
  [names |-> order, cols |-> [n \in Range(order) |-> tb.cols[n]]]

RECURSIVE ConcatAllReversed(_)
ConcatAllReversed(ss) ==
  IF ss = <<>> THEN <<>> ELSE ConcatAllReversed(Tail(ss)) \o Head(ss)

StackColumnReversed(tabs, n) == ConcatAllReversed([k \in 1..Len(tabs) |-> tabs[k].cols[n]])
\* The rows of the stacked tables, column by column.
StackColumn(tabs, n) == ConcatAll([k \in 1..Len(tabs) |-> tabs[k].cols[n]])

\* vstack(tabs) of tables with the same columns: rows of tabs[1], then of
\* tabs[2], ...
VStack(tabs) ==
  [names |-> tabs[1].names,
   cols  |-> [n \in DOMAIN tabs[1].cols |-> StackColumn(tabs, n)]]

\* ---------------------------------------------------------------- parsers
\* The delimiters Table.read(format='ascii') guesses, in order: blanks, commas.
Delimiters == <<" ", ",">>

\* The fields of each line of a file under one delimiter, surrounding blanks
\* removed.
FieldsOf(content, d) ==
  [k \in 1..Len(content) |->
     IF d = " " THEN SplitWs(content[k])
     ELSE Map(Strip, SplitOn(content[k], d))]

\* A guess is accepted when the file has lines and every line has as many
\* fields as names were given.
ReadsWith(content, d) ==
  /\ content # <<>>
  /\ \A k \in 1..Len(content) : Len(FieldsOf(content, d)[k]) = Len(names)

\* Table.read(line_list, format='ascii', names=names) returns a table
PrimaryOk(content) == \E j \in 1..Len(Delimiters) : ReadsWith(content, Delimiters[j])

\* ... the table it returns: the first line is the header line, whose names
\* are replaced by `names`; the other lines are the rows.
PrimaryTable(content) ==
  LET j == CHOOSE j \in 1..Len(Delimiters) :
             /\ ReadsWith(content, Delimiters[j])
             /\ \A h \in 1..(j - 1) : ~ReadsWith(content, Delimiters[h])
  IN  MakeTable(Tail(FieldsOf(content, Delimiters[j])), names)

\* np.genfromtxt(delimiter=(13, 14, 13, 16), dtype=str): the consecutive
\* character slices of one line, blanks kept (autostrip is off).
FixedWidthSlices(line) ==
  <<Slice(line, 0, W1),
    Slice(line, W1, W1 + W2),
    Slice(line, W1 + W2, W1 + W2 + W3),
    Slice(line, W1 + W2 + W3, W1 + W2 + W3 + W4)>>

GenFromTxt(content) == Map(FixedWidthSlices, content)

\* A cast of text to dtype 'S<n>': at most n characters are kept.
CastS(text, n) == Slice(text, 0, n)

\* Table(data, names=names, dtype=('S10', 'f8', 'S15', 'S15')) succeeds: there is
\* data of four columns and every Wavelength slice is a float literal.
FallbackOk(content) ==
  /\ content # <<>>
  /\ \A k \in 1..Len(content) : IsFloatLiteral(GenFromTxt(content)[k][2])

FallbackRow(f) == <<CastS(f[1], S10), ToFloat(f[2]), CastS(f[3], S15), CastS(f[4], S15)>>

FallbackTable(content) == MakeTable(Map(FallbackRow, GenFromTxt(content)), names)

\* ------------------------------------------------------ column transformer
OnColumnShort(n) == [k \in 1..(n - 1) |-> TRUE]
\* Column([True] * len(master_table))
OnColumn(n) == [k \in 1..n |-> TRUE]

\* re.sub('[0-9]+', '', value).strip()
StrengthOf(value) == Strip(ReSub(Digits, value))

IntensityTextSequential(value) == Strip(ReSub(StrengthChars, StrengthOf(value)))
\* re.sub('[a-zA-Z!@#$%^&*]', '', value).strip()
IntensityText(value) == Strip(ReSub(StrengthChars, value))

\* ------------------------------------------------------------ file system
\* os.path.join(location, name) / the directory part of the glob pattern
NistDir == <<"data", "line_lists", "NIST">>
PathOf(dir, base) == [dir |-> dir, base |-> base]

DotTxt == <<".", "t", "x", "t">>
\* the suffix the glob pattern '*.txt' asks for
GlobSuffix == DotTxt

\* fnmatch of a base name against '*<suffix>': the name ends with the suffix and
\* is not a hidden file.
Matches(base) ==
  /\ Len(base) >= Len(GlobSuffix)
  /\ SubSeq(base, Len(base) - Len(GlobSuffix) + 1, Len(base)) = GlobSuffix
  /\ base # <<>> /\ Head(base) # "."

\* glob.glob('data/line_lists/NIST/*.txt') as a set (the order is the
\* file system's)
GlobSet(files) == {p \in DOMAIN files : p.dir = NistDir /\ Matches(p.base)}

Perms(S) == {s \in [1..Cardinality(S) -> S] : \A a, b \in 1..Cardinality(S) : s[a] = s[b] => a = b}

OutNameTxt == <<"N", "I", "S", "T", "_", "c", "o", "m", "b", "i", "n", "e", "d", ".", "t", "x", "t">>
\* main's arguments to save_table
table_name == <<"N", "I", "S", "T", "_", "c", "o", "m", "b", "i", "n", "e", "d", ".", "c", "s", "v">>
location == NistDir
OutPath == PathOf(location, table_name)

DigitChars == <<"0", "1", "2", "3", "4", "5", "6", "7", "8", "9">>

\* str(n) of an integer
RECURSIVE IntToStr(_)
IntToStr(n) ==
  IF n < 0 THEN <<"-">> \o IntToStr(0 - n)
  ELSE IF n < 10 THEN <<DigitChars[n + 1]>>
  ELSE IntToStr(n \div 10) \o <<DigitChars[(n % 10) + 1]>>

\* the characters of a column name
NameText(n) ==
  CASE n = "Element" -> <<"E", "l", "e", "m", "e", "n", "t">>
    [] n = "Wavelength" -> <<"W", "a", "v", "e", "l", "e", "n", "g", "t", "h">>
    [] n = "Intensity" -> <<"I", "n", "t", "e", "n", "s", "i", "t", "y">>
    [] n = "Strength" -> <<"S", "t", "r", "e", "n", "g", "t", "h">>
    [] n = "On" -> <<"O", "n">>
    [] n = "Reference" -> <<"R", "e", "f", "e", "r", "e", "n", "c", "e">>

\* how the csv writer prints a value of the final table's column n
FieldText(n, v) ==
  CASE n = "On" -> IF v THEN <<"T", "r", "u", "e">> ELSE <<"F", "a", "l", "s", "e">>
    [] n = "Intensity" -> IntToStr(v)
    [] OTHER -> v

\* table.write(path, format='csv') of a final table: the header line, then one
\* line per row, fields joined by commas (no field of the model holds a comma,
\* so none is quoted).
Csv(tb) ==
  <<Join(Map(NameText, tb.names), ",")>> \o
  [k \in 1..NRows(tb) |->
     Join([j \in 1..Len(tb.names) |-> FieldText(tb.names[j], tb.cols[tb.names[j]][k])], ",")]

WriteFile(files, path, data) ==
  [p \in (DOMAIN files) \cup {path} |-> IF p = path THEN data ELSE files[p]]

\* ------------------------------------------------------------ input files
Spaces(n) == [k \in 1..n |-> " "]
PadR(text, w) == text \o Spaces(w - Len(text))
PadL(text, w) == Spaces(w - Len(text)) \o text

\* a fixed-width file, fields left-aligned: raw intensities "10p", "3", "12p34"
FileFixed ==
  <<PadR(<<"1", "0", "p">>, W1) \o PadR(<<"5", "0", "0", ".", "1">>, W2) \o PadR(<<"F", "e", " ", "I", "I">>, W3) \o PadR(<<"S", "m", "i", "t", "h", " ", "1", "9", "9", "0">>, W4),
    PadR(<<"3">>, W1) \o PadR(<<"5", "0", "0", ".", "1", "2", "3">>, W2) \o PadR(<<"F", "e", " ", "I", "I">>, W3) \o PadR(<<"S", "m", "i", "t", "h", " ", "1", "9", "9", "0">>, W4),
    PadR(<<"1", "2", "p", "3", "4">>, W1) \o PadR(<<"5", "0", "1">>, W2) \o PadR(<<"N", "e", " ", "I">>, W3) \o PadR(<<"J", "o", "n", "e", "s">>, W4)>>
\* a fixed-width file, fields right-aligned and a reference of full width
FileRight ==
  <<PadL(<<"1", "0", "0", "0">>, W1) \o PadL(<<"6", "5", "6", ".", "3">>, W2) \o PadL(<<"H", " ", "I">>, W3) \o <<"M", "o", "o", "r", "e", " ", "e", "t", " ", "a", "l", " ", "1", "9", "7", "2">>,
    PadL(<<"2", "0", "0", "h">>, W1) \o PadL(<<"4", "8", "6", ".", "1">>, W2) \o PadL(<<"H", " ", "I">>, W3) \o PadL(<<"M", "o", "o", "r", "e">>, W4)>>
\* a fixed-width file with an intensity without digits
FileNoDigits ==
  <<PadR(<<"7">>, W1) \o PadR(<<"4", "1", "0", ".", "2">>, W2) \o PadR(<<"A", "r", " ", "I", "I">>, W3) \o PadR(<<"L", "e", "e">>, W4),
    PadR(<<"b", "b">>, W1) \o PadR(<<"4", "1", "1", ".", "5">>, W2) \o PadR(<<"A", "r", " ", "I", "I">>, W3) \o PadR(<<"L", "e", "e">>, W4)>>
\* a comma-delimited file with a header line
FileCsv ==
  <<Join(<<<<"I", "n", "t">>, <<"W", "a", "v", "e">>, <<"E", "l">>, <<"R", "e", "f">>>>, ","),
    Join(<<<<"5", "*">>, <<"4", "0", "0", ".", "2">>, <<"N", "e", " ", "I">>, <<"K", "i", "m", " ", "2", "0", "0", "1">>>>, ","),
    Join(<<<<"4", "0">>, <<"4", "0", "2">>, <<"N", "e", " ", "I">>, <<"K", "i", "m", " ", "2", "0", "0", "1">>>>, ",")>>
\* a fixed-width file whose wavelength is not a number
FileBadWave ==
  <<PadR(<<"4">>, W1) \o PadR(<<"5", "x", "0">>, W2) \o PadR(<<"O", " ", "I">>, W3) \o PadR(<<"L", "e", "e">>, W4)>>
\* a file without lines
FileEmpty == <<>>

Contents == {FileFixed, FileRight, FileNoDigits, FileCsv, FileBadWave, FileEmpty}

TxtNames == {<<"a", ".", "t", "x", "t">>, <<"b", ".", "t", "x", "t">>}
OtherNames == {<<"n", "o", "t", "e", "s", ".", "d", "a", "t">>}

\* what an earlier run left at the output path
OldCsv ==
  <<Join(Map(NameText, neworder), ","),
    <<"F", "e", " ", "I", ",", "3", "0", "0", ".", "5", ",", "9", ",", "w", ",", "T", "r", "u", "e", ",", "o", "l", "d">>>>

\* The directories main can be started in: any of the *.txt files with any of
\* the contents, possibly another file, possibly an output of an earlier run.
InputDirs ==
  UNION {[{PathOf(NistDir, b) : b \in T \cup O} -> Contents] :
           T \in SUBSET TxtNames, O \in SUBSET OtherNames}

InitialFiles == InputDirs \cup {WriteFile(f, OutPath, OldCsv) : f \in InputDirs}

\* ------------------------------------------------------------------ state
VARIABLES
  fs,                     \* the files: path -> content
  pc,                     \* where main is
  runs,                   \* how many times main has been started
  line_lists,             \* build_table: the glob result
  idx,                    \* build_table: position of the for loop in line_lists
  tabs_to_stack,          \* build_table: the per-file tables
  master_table,           \* build_table: the stacked table being transformed
  intensity,              \* build_table: the raw Intensity column
  intensity_wo_strength,  \* build_table: the intensity texts
  t,                      \* main: <<the table build_table returned>>, or <<>>
  attempts                \* history: the parse attempts of this run, in order

vars == <<fs, pc, runs, line_lists, idx, tabs_to_stack, master_table, intensity,
          intensity_wo_strength, t, attempts>>

locals == <<line_lists, idx, tabs_to_stack, master_table, intensity,
            intensity_wo_strength, t, attempts>>

Init ==
  /\ fs \in InitialFiles
  /\ pc = "glob"
  /\ runs = 1
  /\ line_lists = <<>>
  /\ idx = 1
  /\ tabs_to_stack = <<>>
  /\ master_table = EmptyTable
  /\ intensity = <<>>
  /\ intensity_wo_strength = <<>>
  /\ t = <<>>
  /\ attempts = <<>>

Attempt(file, strategy, ok) == [file |-> file, strategy |-> strategy, ok |-> ok]

\* line 26: line_lists = glob.glob(...); line 28: tabs_to_stack = []
Glob ==
  /\ pc = "glob"
  /\ \E order \in Perms(GlobSet(fs)) : line_lists' = order
  /\ idx' = 1
  /\ tabs_to_stack' = <<>>
  /\ pc' = "for"
  /\ UNCHANGED <<fs, runs, master_table, intensity, intensity_wo_strength, t, attempts>>

\* lines 30-32: the primary parse returns a table, which is appended
ReadPrimary ==
  /\ pc = "for" /\ idx <= Len(line_lists)
  /\ PrimaryOk(fs[line_lists[idx]])
  /\ tabs_to_stack' = Append(tabs_to_stack, PrimaryTable(fs[line_lists[idx]]))
  /\ attempts' = Append(attempts, Attempt(line_lists[idx], "primary", TRUE))
  /\ idx' = idx + 1
  /\ UNCHANGED <<fs, pc, runs, line_lists, master_table, intensity, intensity_wo_strength, t>>

\* lines 30-33: the primary parse raises, the except clause is entered
ReadPrimaryRaises ==
  /\ pc = "for" /\ idx <= Len(line_lists)
  /\ ~PrimaryOk(fs[line_lists[idx]])
  /\ attempts' = Append(attempts, Attempt(line_lists[idx], "primary", FALSE))
  /\ pc' = "except"
  /\ UNCHANGED <<fs, runs, line_lists, idx, tabs_to_stack, master_table, intensity,
                 intensity_wo_strength, t>>

\* lines 35-40: the fixed-width parse returns a table, which is appended
ReadFixedWidth ==
  /\ pc = "except"
  /\ FallbackOk(fs[line_lists[idx]])
  /\ tabs_to_stack' = Append(tabs_to_stack, FallbackTable(fs[line_lists[idx]]))
  /\ attempts' = Append(attempts, Attempt(line_lists[idx], "fixedwidth", TRUE))
  /\ idx' = idx + 1
  /\ pc' = "for"
  /\ UNCHANGED <<fs, runs, line_lists, master_table, intensity, intensity_wo_strength, t>>

ReadFixedWidthSkips ==
  /\ pc = "except"
  /\ ~FallbackOk(fs[line_lists[idx]])
  /\ attempts' = Append(attempts, Attempt(line_lists[idx], "fixedwidth", FALSE))
  /\ idx' = idx + 1
  /\ pc' = "for"
  /\ UNCHANGED <<fs, runs, line_lists, tabs_to_stack, master_table, intensity,
                 intensity_wo_strength, t>>
\* lines 35-39: the fixed-width parse raises inside the except clause: the
\* exception leaves build_table and main
ReadFixedWidthRaises ==
  /\ pc = "except"
  /\ ~FallbackOk(fs[line_lists[idx]])
  /\ attempts' = Append(attempts, Attempt(line_lists[idx], "fixedwidth", FALSE))
  /\ pc' = "failed"
  /\ UNCHANGED <<fs, runs, line_lists, idx, tabs_to_stack, master_table, intensity,
                 intensity_wo_strength, t>>

StackAndOpenOutput ==
  /\ pc = "for" /\ idx > Len(line_lists)
  /\ tabs_to_stack # <<>>
  /\ master_table' = VStack(tabs_to_stack)
  /\ fs' = WriteFile(fs, OutPath, <<>>)
  /\ pc' = "on"
  /\ UNCHANGED <<runs, line_lists, idx, tabs_to_stack, intensity,
                 intensity_wo_strength, t, attempts>>
\* line 43: master_table = vstack(tabs_to_stack)
Stack ==
  /\ pc = "for" /\ idx > Len(line_lists)
  /\ tabs_to_stack # <<>>
  /\ master_table' = VStack(tabs_to_stack)
  /\ pc' = "on"
  /\ UNCHANGED <<fs, runs, line_lists, idx, tabs_to_stack, intensity,
                 intensity_wo_strength, t, attempts>>

\* line 43: vstack of no tables raises
StackRaises ==
  /\ pc = "for" /\ idx > Len(line_lists)
  /\ tabs_to_stack = <<>>
  /\ pc' = "failed"
  /\ UNCHANGED <<fs, runs, locals>>

\* lines 47-48: the On column
AddOn ==
  /\ pc = "on"
  /\ master_table' = AddColumn(master_table, OnColumn(NRows(master_table)), "On")
  /\ pc' = "strength"
  /\ UNCHANGED <<fs, runs, line_lists, idx, tabs_to_stack, intensity,
                 intensity_wo_strength, t, attempts>>

\* lines 52-54: the Strength column, from the raw Intensity column
AddStrength ==
  /\ pc = "strength"
  /\ intensity' = master_table.cols["Intensity"]
  /\ master_table' = AddColumn(master_table, Map(StrengthOf, master_table.cols["Intensity"]),
                               "Strength")
  /\ pc' = "wo_strength"
  /\ UNCHANGED <<fs, runs, line_lists, idx, tabs_to_stack, intensity_wo_strength, t, attempts>>

\* lines 57-58: the intensity texts, from the raw Intensity column
StripStrength ==
  /\ pc = "wo_strength"
  /\ intensity_wo_strength' = Map(IntensityText, intensity)
  /\ pc' = "remove"
  /\ UNCHANGED <<fs, runs, line_lists, idx, tabs_to_stack, master_table, intensity, t, attempts>>

\* line 61: master_table.remove_column('Intensity')
RemoveOld ==
  /\ pc = "remove"
  /\ master_table' = RemoveColumn(master_table, "Intensity")
  /\ pc' = "add_intensity"
  /\ UNCHANGED <<fs, runs, line_lists, idx, tabs_to_stack, intensity,
                 intensity_wo_strength, t, attempts>>

AddIntensityDefaults ==
  /\ pc = "add_intensity"
  /\ master_table' = AddColumn(master_table,
                               [k \in 1..Len(intensity_wo_strength) |->
                                  IF IsIntLiteral(intensity_wo_strength[k])
                                    THEN ToInt(intensity_wo_strength[k]) ELSE 0],
                               "Intensity")
  /\ pc' = "reorder"
  /\ UNCHANGED <<fs, runs, line_lists, idx, tabs_to_stack, intensity,
                 intensity_wo_strength, t, attempts>>
\* lines 64-66: the integer Intensity column; every text is an integer literal
AddIntensity ==
  /\ pc = "add_intensity"
  /\ \A k \in 1..Len(intensity_wo_strength) : IsIntLiteral(intensity_wo_strength[k])
  /\ master_table' = AddColumn(master_table, Map(ToInt, intensity_wo_strength), "Intensity")
  /\ pc' = "reorder"
  /\ UNCHANGED <<fs, runs, line_lists, idx, tabs_to_stack, intensity,
                 intensity_wo_strength, t, attempts>>

\* lines 64-66: Column(..., dtype=int) raises on a text that is no integer
AddIntensityRaises ==
  /\ pc = "add_intensity"
  /\ \E k \in 1..Len(intensity_wo_strength) : ~IsIntLiteral(intensity_wo_strength[k])
  /\ pc' = "failed"
  /\ UNCHANGED <<fs, runs, locals>>

\* lines 69-70: master_table = master_table[neworder]
Reorder ==
  /\ pc = "reorder"
  /\ master_table' = SelectColumns(master_table, neworder)
  /\ pc' = "return"
  /\ UNCHANGED <<fs, runs, line_lists, idx, tabs_to_stack, intensity,
                 intensity_wo_strength, t, attempts>>

\* line 72 and line 92: t = build_table()
Return ==
  /\ pc = "return"
  /\ t' = <<master_table>>
  /\ pc' = "save"
  /\ UNCHANGED <<fs, runs, line_lists, idx, tabs_to_stack, master_table, intensity,
                 intensity_wo_strength, attempts>>

\* lines 88, 93: table.write(path, format='csv'), no file at the path
SaveTable ==
  /\ pc = "save"
  /\ OutPath \notin DOMAIN fs
  /\ fs' = WriteFile(fs, OutPath, Csv(t[1]))
  /\ pc' = "done"
  /\ UNCHANGED <<runs, locals>>

\* lines 88, 93: table.write(path, format='csv') with a file at the path and
\* no overwrite argument.  What happens is astropy's default, which the
\* releases do not agree on: the writer replaces the file ...
SaveTableOverwrites ==
  /\ pc = "save"
  /\ OutPath \in DOMAIN fs
  /\ fs' = WriteFile(fs, OutPath, Csv(t[1]))
  /\ pc' = "done"
  /\ UNCHANGED <<runs, locals>>

\* ... or refuses to overwrite and raises OSError
SaveTableRaises ==
  /\ pc = "save"
  /\ OutPath \in DOMAIN fs
  /\ pc' = "failed"
  /\ UNCHANGED <<fs, runs, locals>>

\* lines 95-96: the script is run again on what the last run left
RunAgain ==
  /\ pc \in {"done", "failed"}
  /\ runs < MaxRuns
  /\ runs' = runs + 1
  /\ pc' = "glob"
  /\ line_lists' = <<>>
  /\ idx' = 1
  /\ tabs_to_stack' = <<>>
  /\ master_table' = EmptyTable
  /\ intensity' = <<>>
  /\ intensity_wo_strength' = <<>>
  /\ t' = <<>>
  /\ attempts' = <<>>
  /\ UNCHANGED fs

Next ==
  \/ Glob
  \/ ReadPrimary
  \/ ReadPrimaryRaises
  \/ ReadFixedWidth
  \/ ReadFixedWidthRaises
  \/ Stack
  \/ StackRaises
  \/ AddOn
  \/ AddStrength
  \/ StripStrength
  \/ RemoveOld
  \/ AddIntensity
  \/ AddIntensityRaises
  \/ Reorder
  \/ Return
  \/ SaveTable
  \/ SaveTableOverwrites
  \/ SaveTableRaises
  \/ RunAgain

Spec == Init /\ [][Next]_vars

\* ------------------------------------------------------------- properties
RECURSIVE SumRows(_)
SumRows(tabs) == IF tabs = <<>> THEN 0 ELSE NRows(Head(tabs)) + SumRows(Tail(tabs))

OkAttempts == SelectSeq(attempts, LAMBDA a : a.ok)
PrimaryAttempts == SelectSeq(attempts, LAMBDA a : a.strategy = "primary")

\* the text left of a raw intensity once letters and ! @ # $ % ^ & * are removed
\* and the blanks around it stripped
Cleaned(raw) == Strip(SelectSeq(raw, LAMBDA c : c \notin StrengthChars))
HasBadIntensity == \E k \in 1..Len(intensity) : ~IsIntLiteral(Cleaned(intensity[k]))

\* C1: the files change only in the step that is save_table's write, taken
\* after build_table has returned the final table (all merged rows, the six
\* columns), and the write touches nothing but the output path; so a run that
\* fails before the Writer writes nothing.
C1_WriteOnlyAfterBuildTable ==
  [][fs' # fs =>
       /\ pc = "save" /\ pc' = "done"
       /\ t # <<>> /\ t[1] = master_table
       /\ NRows(t[1]) = SumRows(tabs_to_stack)
       /\ Len(t[1].names) = 6
       /\ \A p \in DOMAIN fs : p # OutPath => (p \in DOMAIN fs' /\ fs'[p] = fs[p])
       /\ DOMAIN fs' = (DOMAIN fs) \cup {OutPath}]_vars

\* C1 witness: a run that parsed a file and then failed, and no output exists
C1_Witness ==
  /\ pc = "failed" /\ t = <<>>
  /\ tabs_to_stack # <<>>
  /\ OutPath \notin DOMAIN fs

\* C2: right after the merge the stacked table is the concatenation of the
\* per-file tables in discovery order: the j-th table is the one parsed from
\* the j-th discovered file, the row count is the sum of the per-file counts,
\* and row r of table j is row (rows of tables 1..j-1) + r of the result.
C2_MergeIsConcatenation ==
  pc = "on" =>
    /\ Len(tabs_to_stack) = Len(line_lists)
    /\ \A j \in 1..Len(tabs_to_stack) :
         tabs_to_stack[j] = IF PrimaryOk(fs[line_lists[j]])
                              THEN PrimaryTable(fs[line_lists[j]])
                              ELSE FallbackTable(fs[line_lists[j]])
    /\ master_table.names = names
    /\ \A n \in Range(names) : Len(master_table.cols[n]) = SumRows(tabs_to_stack)
    /\ \A j \in 1..Len(tabs_to_stack) : \A r \in 1..NRows(tabs_to_stack[j]) :
         \A n \in Range(names) :
           master_table.cols[n][SumRows(SubSeq(tabs_to_stack, 1, j - 1)) + r]
             = tabs_to_stack[j].cols[n][r]

\* C2 witness: two files of 3 and 2 rows merged into 5 rows
C2_Witness ==
  /\ pc = "on"
  /\ Len(tabs_to_stack) = 2
  /\ NRows(tabs_to_stack[1]) = 3 /\ NRows(tabs_to_stack[2]) = 2
  /\ NRows(master_table) = 5

\* C3: the attempts of a run are, file by file in discovery order, the primary
\* parse first; the fixed-width parse follows exactly the primary parses that
\* raised; a fixed-width parse that raises is the last attempt of the run, which
\* has failed; and every file parsed contributed exactly one table.
C3_FallbackIffPrimaryRaised ==
  /\ \A k \in 1..Len(attempts) :
       LET a == attempts[k] IN
       /\ a.strategy = "fixedwidth" =>
            k > 1 /\ attempts[k - 1] = Attempt(a.file, "primary", FALSE)
       /\ (a.strategy = "primary" /\ ~a.ok) =>
            IF k < Len(attempts)
              THEN attempts[k + 1].strategy = "fixedwidth" /\ attempts[k + 1].file = a.file
              ELSE pc = "except"
       /\ (a.strategy = "primary" /\ a.ok /\ k < Len(attempts)) =>
            attempts[k + 1].strategy = "primary"
       /\ (a.strategy = "fixedwidth" /\ ~a.ok) => (k = Len(attempts) /\ pc = "failed")
  /\ Len(PrimaryAttempts) <= Len(line_lists)
  /\ \A k \in 1..Len(PrimaryAttempts) : PrimaryAttempts[k].file = line_lists[k]
  /\ Len(tabs_to_stack) = Len(OkAttempts)
  /\ \A k \in 1..Len(OkAttempts) : OkAttempts[k].file = line_lists[k]
  /\ pc \notin {"glob", "for", "except", "failed"} => Len(tabs_to_stack) = Len(line_lists)

\* C3 witness: one file parsed by the fallback, the next failing both parses
C3_Witness ==
  /\ pc = "failed"
  /\ Len(attempts) = 4
  /\ attempts[2].strategy = "fixedwidth" /\ attempts[2].ok
  /\ attempts[4].strategy = "fixedwidth" /\ ~attempts[4].ok
  /\ Len(tabs_to_stack) = 1

\* C4: when some row's raw Intensity, cleaned, is no integer literal, the run
\* never gets past the integer column and no table is returned; a returned
\* table has one integer per merged row, the value of that row's cleaned text.
C4_BadIntensityFailsRun ==
  /\ HasBadIntensity => (t = <<>> /\ pc \in {"wo_strength", "remove", "add_intensity", "failed"})
  /\ t # <<>> =>
       /\ Len(t[1].cols["Intensity"]) = Len(intensity)
       /\ Len(intensity) = SumRows(tabs_to_stack)
       /\ \A k \in 1..Len(intensity) : t[1].cols["Intensity"][k] = ToInt(Cleaned(intensity[k]))

\* C4 witness: the run failed at the integer column on a row without digits
C4_Witness ==
  /\ pc = "failed" /\ t = <<>>
  /\ \E k \in 1..Len(intensity) : Cleaned(intensity[k]) = <<>>
  /\ Len(intensity_wo_strength) = Len(intensity)

\* C5: whenever save_table writes to an output path where a file exists, the
\* write succeeds and the file then holds the serialization of the new table.
C5_OverwriteSucceeds ==
  [][(pc = "save" /\ OutPath \in DOMAIN fs) =>
       (pc' = "done" /\ fs'[OutPath] = Csv(t[1]))]_vars

DigitsOf(s) == SelectSeq(s, LAMBDA c : c \in Digits)
StrengthCharsOf(s) == SelectSeq(s, LAMBDA c : c \in StrengthChars)

\* C6: once both derivations are made, every Strength is free of digits and
\* every intensity text free of letters and ! @ # $ % ^ & *, and each is taken
\* from the raw string itself: the intensity text keeps all the digits of the
\* raw string, the Strength all its letters and symbols; the returned table
\* holds that Strength and the integer of that text.
C6_IndependentExtraction ==
  pc \in {"remove", "add_intensity", "reorder", "return", "save", "done"} =>
    /\ Len(intensity_wo_strength) = Len(intensity)
    /\ Len(master_table.cols["Strength"]) = Len(intensity)
    /\ \A k \in 1..Len(intensity) :
         LET st == master_table.cols["Strength"][k]
             it == intensity_wo_strength[k]
         IN  /\ \A c \in Range(st) : c \notin Digits
             /\ \A c \in Range(it) : c \notin StrengthChars
             /\ DigitsOf(it) = DigitsOf(intensity[k])
             /\ StrengthCharsOf(st) = StrengthCharsOf(intensity[k])
             /\ t # <<>> => /\ t[1].cols["Strength"][k] = st
                            /\ t[1].cols["Intensity"][k] = ToInt(it)

\* C6 witness: a returned row of raw intensity "12p34": Strength "p", Intensity 1234
C6_Witness ==
  /\ t # <<>>
  /\ \E k \in 1..Len(intensity) :
       /\ DigitsOf(intensity[k]) = <<"1", "2", "3", "4">>
       /\ t[1].cols["Strength"][k] = <<"p">>
       /\ t[1].cols["Intensity"][k] = 1234

\* C7: a returned table has one On value per merged row, each of them true.
C7_OnAlwaysTrue ==
  t # <<>> =>
    /\ Len(t[1].cols["On"]) = SumRows(tabs_to_stack)
    /\ Len(t[1].cols["On"]) = Len(t[1].cols["Element"])
    /\ \A k \in 1..Len(t[1].cols["On"]) : t[1].cols["On"][k] = TRUE

\* C7 witness: a returned table of five rows from two files
C7_Witness ==
  /\ t # <<>>
  /\ Len(tabs_to_stack) = 2
  /\ Len(t[1].cols["On"]) = 5

\* C8: a returned table has exactly the columns Element, Wavelength, Intensity,
\* Strength, On, Reference in that order, and its Intensity column is the
\* integer one, not the raw text.
C8_SixColumnsInOrder ==
  t # <<>> =>
    /\ t[1].names = <<"Element", "Wavelength", "Intensity", "Strength", "On", "Reference">>
    /\ DOMAIN t[1].cols = {"Element", "Wavelength", "Intensity", "Strength", "On", "Reference"}
    /\ \A k \in 1..Len(intensity) :
         t[1].cols["Intensity"][k] = ToInt(intensity_wo_strength[k])

\* C8 witness: build_table has just returned a table with rows
C8_Witness ==
  /\ pc = "save" /\ t # <<>>
  /\ NRows(t[1]) >= 2
  /\ \E k \in 1..Len(intensity) : intensity[k] # IntToStr(t[1].cols["Intensity"][k])

\* C9: the table the fixed-width fallback makes of a file has one row per line,
\* holding the line's character slices of widths 13, 14, 13 and 16 in full
\* (Wavelength as the number its slice spells).
C9_FixedWidthKeepsWholeSlices ==
  \A k \in 1..Len(OkAttempts) :
    (OkAttempts[k].strategy = "fixedwidth" /\ k <= Len(tabs_to_stack)) =>
      LET lines == fs[OkAttempts[k].file]
          tb == tabs_to_stack[k]
      IN  /\ NRows(tb) = Len(lines)
          /\ \A r \in 1..Len(lines) :
               /\ tb.cols["Intensity"][r] = SubSeq(lines[r], 1, 13)
               /\ tb.cols["Wavelength"][r] = Strip(SubSeq(lines[r], 14, 27))
               /\ tb.cols["Element"][r] = SubSeq(lines[r], 28, 40)
               /\ tb.cols["Reference"][r] = SubSeq(lines[r], 41, 56)

\* C10: no step changes what the glob finds, and the output path, which lies in
\* the globbed directory, is never among the files found.
C10_OutputNeverDiscovered ==
  [][/\ GlobSet(fs') = GlobSet(fs)
     /\ OutPath.dir = NistDir
     /\ OutPath \notin GlobSet(fs')
     /\ pc' = "for" => (Range(line_lists') = GlobSet(fs') /\ OutPath \notin Range(line_lists'))]_vars

\* C10 witness: a second run has globbed the directory the first run wrote to
C10_Witness ==
  /\ runs = 2 /\ pc = "for" /\ idx = 1
  /\ line_lists # <<>>
  /\ OutPath \in DOMAIN fs /\ fs[OutPath] # OldCsv
====
